---------------------------- MODULE Spec2Model ----------------------------
(***************************************************************************)
(* Model of kani-compiler/src/kani_middle/mod.rs: the crate-level item     *)
(* audit (check_crate_items), the reachability validator                   *)
(* (check_reachable_items), the structural type scanner (is_interior_mut / *)
(* FindUnsafeCell) and the ABI error handlers of CompilerHelpers.          *)
(*                                                                         *)
(* One behaviour is one invocation of one entry point (variable op).       *)
(* Loops advance one iteration per step; pc records the position and, at   *)
(* the end, how the invocation left: "returned", "aborted" (the            *)
(* abort_if_errors checkpoint), "fatal" (emit_fatal), "bug" (span_bug) or  *)
(* "panic" (unreachable!).                                                 *)
(***************************************************************************)
EXTENDS Integers, Sequences, FiniteSets, TLC

VARIABLES
    op,                   \* the entry point this run invokes
    pc,                   \* position inside it / how it ended
    dcx,                  \* tcx.dcx(): the diagnostic sink
    hir_items,            \* tcx.hir().items() (check_crate_items)
    ignore_asm,           \* check_crate_items' flag
    items,                \* check_reachable_items' slice of MonoItem
    unstable_features,    \* queries.args().unstable_features
    idx,                  \* number of loop iterations completed
    def_ids,              \* the HashSet def_ids of check_reachable_items
    reachable_functions,  \* the HashSet reachable_functions
    calls,                \* calls made to the KaniAttributes checks, in order
    ty,                   \* is_interior_mut's argument
    stack,                \* types whose visit is pending (the recursion)
    result,               \* is_interior_mut's return value
    abi                   \* fn_abi / layout_of: the engine's answer and the request

vars == <<op, pc, dcx, hir_items, ignore_asm, items, unstable_features, idx,
          def_ids, reachable_functions, calls, ty, stack, result, abi>>

-----------------------------------------------------------------------------
(* Bounds *)

MaxItems == 3

MaxHir == 3

MaxDepth == 2

-----------------------------------------------------------------------------
(* Helpers *)

SeqsUpTo(S, n) == UNION {[1..k -> S] : k \in 0..n}

-----------------------------------------------------------------------------
(* Types: stable_mir::ty::TyKind::RigidTy, restricted to the shapes the    *)
(* scanner distinguishes.  A type is the expression the compiler holds:    *)
(* an Adt is a definition name plus its generic arguments; the fields of   *)
(* the definition are found in the definition, not in the expression.      *)

I32 == [k |-> "I32", def |-> "", args |-> <<>>]

Param == [k |-> "Param", def |-> "", args |-> <<>>]

Ref(t) == [k |-> "Ref", def |-> "", args |-> <<t>>]

RawPtr(t) == [k |-> "RawPtr", def |-> "", args |-> <<t>>]

Tuple(fs) == [k |-> "Tuple", def |-> "", args |-> fs]

Adt(d, as) == [k |-> "Adt", def |-> d, args |-> as]

(* The program's type definitions:                                          *)
(*   struct UnsafeCell<T> { value: T }        (the lang item)              *)
(*   struct Plain     { a: i32 }                                            *)
(*   struct Holder    { c: UnsafeCell<i32> }                                *)
(*   struct RefHolder { r: &UnsafeCell<i32>, x: i32 }                       *)
(*   struct Node      { next: *const Node, val: i32 }                       *)
(*   struct Wrapper<T> { v: T }                                             *)
(*   struct Boxed<T>   { p: *const T }                                      *)
NullaryAdts == {"Plain", "Holder", "RefHolder", "Node"}

UnaryAdts == {"UnsafeCell", "Wrapper", "Boxed"}

AdtFields(d) ==
    CASE d = "UnsafeCell" -> <<Param>>
      [] d = "Plain"      -> <<I32>>
      [] d = "Holder"     -> <<Adt("UnsafeCell", <<I32>>)>>
      [] d = "RefHolder"  -> <<Ref(Adt("UnsafeCell", <<I32>>)), I32>>
      [] d = "Node"       -> <<RawPtr(Adt("Node", <<>>)), I32>>
      [] d = "Wrapper"    -> <<Param>>
      [] d = "Boxed"      -> <<RawPtr(Param)>>

is_unsafe_cell(d) == d = "UnsafeCell"

BaseTypes == {I32} \cup {Adt(d, <<>>) : d \in NullaryAdts}

Grow(S) ==
    S \cup {Ref(t) : t \in S} \cup {RawPtr(t) : t \in S}
      \cup {Adt(d, <<t>>) : d \in UnaryAdts, t \in S}
      \cup {Tuple(<<a, b>>) : a \in S, b \in BaseTypes}

RECURSIVE TypesOfDepth(_)
TypesOfDepth(n) == IF n = 0 THEN BaseTypes ELSE Grow(TypesOfDepth(n - 1))

Types == TypesOfDepth(MaxDepth)

(* FindUnsafeCell::visit_ty on one type: either Break, or Continue after    *)
(* visiting the types in next (in that order).  The last arm is            *)
(* ty.super_visit(self): stable_mir's Visitable for Ty/RigidTy visits the  *)
(* generic arguments of an Adt, the elements of a Tuple, and nothing for   *)
(* a primitive.                                                            *)
super_visit(t) ==
    CASE t.k = "Adt"   -> t.args
      [] t.k = "Tuple" -> t.args
      [] OTHER         -> <<>>

(* visit_ty whose last arm calls ty.visit(self) instead of                 *)
(* ty.super_visit(self): the same type is visited again.                   *)
visit_ty_revisit(t) ==
    IF t.k = "Adt" /\ is_unsafe_cell(t.def)
    THEN [brk |-> TRUE, next |-> <<>>]
    ELSE IF t.k \in {"Ref", "RawPtr"}
    THEN [brk |-> FALSE, next |-> <<>>]
    ELSE [brk |-> FALSE, next |-> <<t>>]

visit_ty(t) ==
    IF t.k = "Adt" /\ is_unsafe_cell(t.def)
    THEN [brk |-> TRUE, next |-> <<>>]
    ELSE IF t.k \in {"Ref", "RawPtr"}
    THEN [brk |-> FALSE, next |-> <<>>]
    ELSE [brk |-> FALSE, next |-> super_visit(t)]

-----------------------------------------------------------------------------
(* The diagnostic sink, tcx.dcx().  raised is "none" until a call that     *)
(* does not return (emit_fatal, span_bug) unwinds the run.                 *)

EmptyDcx == [diags |-> <<>>, raised |-> "none"]

Diag(level, code, about) == [level |-> level, code |-> code, about |-> about]

(* An err that unwinds like emit_fatal instead of returning. *)
dcx_err_raising(s, code, about) ==
    [s EXCEPT !.diags = Append(@, Diag("error", code, about)), !.raised = "fatal"]

dcx_err(s, code, about) ==
    [s EXCEPT !.diags = Append(@, Diag("error", code, about))]

dcx_warn(s, code, about) ==
    [s EXCEPT !.diags = Append(@, Diag("warning", code, about))]

dcx_emit_fatal(s, code, about) ==
    [s EXCEPT !.diags = Append(@, Diag("fatal", code, about)), !.raised = "fatal"]

span_bug(s, code, about) ==
    [s EXCEPT !.diags = Append(@, Diag("bug", code, about)), !.raised = "bug"]

has_errors(s) == \E i \in DOMAIN s.diags : s.diags[i].level = "error"

abort_if_errors(s) == IF has_errors(s) THEN "aborted" ELSE "returned"

After(s, continue) == IF s.raised # "none" THEN s.raised ELSE continue

-----------------------------------------------------------------------------
(* KaniAttributes (kani_middle/attributes.rs)                               *)

Defs == {"harness", "target", "gated"}

Features == {"feat"}

(* #[kani::proof_for_contract(target)] on harness; #[kani::unstable(feat)]  *)
(* on gated.                                                                *)
internal(d) == [index |-> d]

ForContractAttribute(d) == IF d = "harness" THEN <<"target">> ELSE <<>>

UnstableAttributes(d) == IF d = "gated" THEN <<"feat">> ELSE <<>>

check_attributes(s, def_id, item) ==
    IF item.consistent THEN s ELSE dcx_err(s, "attributes", def_id)

RECURSIVE ReportUnstable(_, _, _)
ReportUnstable(s, attrs, enabled) ==
    IF attrs = <<>> THEN s
    ELSE ReportUnstable(
           IF Head(attrs) \in enabled THEN s ELSE dcx_err(s, "unstable", Head(attrs)),
           Tail(attrs), enabled)

check_unstable_features(s, d, enabled) ==
    ReportUnstable(s, UnstableAttributes(d), enabled)

check_proof_for_contract(s, d, reachable) ==
    IF ForContractAttribute(d) # <<>> /\ internal(ForContractAttribute(d)[1]) \notin reachable
    THEN dcx_err(s, "proof_for_contract", ForContractAttribute(d)[1])
    ELSE s

-----------------------------------------------------------------------------
(* check_crate_items *)

HirItems == [kind : {"GlobalAsm", "Fn"}, consistent : BOOLEAN]

(* The loop body with the test on ignore_asm inverted. *)
CrateItemBodyInverted(s, n, item, ignore) ==
    LET s1 == check_attributes(s, ToString(n), item)
    IN  IF item.kind = "GlobalAsm"
        THEN IF ignore
             THEN dcx_err(s1, "global_asm", ToString(n))
             ELSE dcx_warn(s1, "global_asm", ToString(n))
        ELSE s1

CrateItemBody(s, n, item, ignore) ==
    LET s1 == check_attributes(s, ToString(n), item)
    IN  IF item.kind = "GlobalAsm"
        THEN IF ~ignore
             THEN dcx_err(s1, "global_asm", ToString(n))
             ELSE dcx_warn(s1, "global_asm", ToString(n))
        ELSE s1

-----------------------------------------------------------------------------
(* check_reachable_items *)

Insts == {"i32", "u8"}

MonoItems ==
    {[kind |-> "Fn", def |-> d, inst |-> a] : d \in Defs, a \in Insts}
      \cup {[kind |-> "Static", def |-> d, inst |-> ""] : d \in Defs}
      \cup {[kind |-> "GlobalAsm", def |-> "", inst |-> ""]}

IsFn(i) == i.kind = "Fn"

IsFnOrStatic(i) == i.kind \in {"Fn", "Static"}

(* The set collected from Fn and Static entries alike. *)
ReachableDefinitions(its) ==
    {internal(its[i].def) : i \in {j \in DOMAIN its : IsFnOrStatic(its[j])}}

(* find_map in place of filter_map: only the first Fn entry is collected. *)
FirstReachableFunction(its) ==
    LET fns == {j \in DOMAIN its : IsFn(its[j])}
    IN  {internal(its[i].def) : i \in {j \in fns : \A m \in fns : j <= m}}

ReachableFunctions(its) ==
    {internal(its[i].def) : i \in {j \in DOMAIN its : IsFn(its[j])}}

(* The loop without its filter. *)
KeepAllItems(its) == its

FilterItems(its) == SelectSeq(its, IsFnOrStatic)

(* The loop without the def_ids test. *)
NeverChecked(ids, d) == FALSE

AlreadyChecked(ids, d) == d \in ids

ReachableItemBody(st, item, reachable, enabled) ==
    IF ~IsFnOrStatic(item)
    THEN [st EXCEPT !.panicked = TRUE]
    ELSE LET def_id == item.def
         IN  IF ~AlreadyChecked(st.def_ids, def_id)
             THEN LET s1 == check_unstable_features(st.dcx, def_id, enabled)
                      s2 == check_proof_for_contract(s1, def_id, reachable)
                  IN  [st EXCEPT !.dcx = s2,
                                 !.calls = @ \o <<<<"check_unstable_features", def_id>>,
                                                  <<"check_proof_for_contract", def_id>>>>,
                                 !.def_ids = @ \cup {def_id}]
             ELSE st

RECURSIVE ReachableLoop(_, _, _, _)
ReachableLoop(st, work, reachable, enabled) ==
    IF work = <<>> \/ st.panicked \/ st.dcx.raised # "none" THEN st
    ELSE ReachableLoop(ReachableItemBody(st, Head(work), reachable, enabled),
                       Tail(work), reachable, enabled)

ReachableStart == [def_ids |-> {}, calls |-> <<>>, dcx |-> EmptyDcx, panicked |-> FALSE]

(* The whole of check_reachable_items on its, as one evaluation: what was  *)
(* checked, what the sink holds and how the call left.                     *)
check_reachable_items(its, enabled) ==
    LET st == ReachableLoop(ReachableStart, FilterItems(its),
                            ReachableFunctions(its), enabled)
    IN  [calls |-> st.calls,
         diags |-> st.dcx.diags,
         exit  |-> IF st.panicked THEN "panic"
                   ELSE After(st.dcx, abort_if_errors(st.dcx))]

-----------------------------------------------------------------------------
(* fn_abi and the CompilerHelpers error handlers *)

FnAbiErrors ==
    {[variant |-> "Layout", layout |-> l] :
        l \in {"SizeOverflow", "Unknown", "NormalizationFailure", "Cycle"}}
      \cup {[variant |-> "AdjustForForeignAbi", layout |-> ""]}

LayoutErrors == {e \in FnAbiErrors : e.variant = "Layout"}

NoError == [variant |-> "Ok", layout |-> ""]

LayoutRequests == {[kind |-> "LayoutOf", subject |-> t] : t \in {"ty_a", "ty_b"}}

FnAbiRequests ==
    {[kind |-> "OfInstance", subject |-> i] : i \in {"instance_a", "instance_b"}}
      \cup {[kind |-> "OfFnPtr", subject |-> g] : g \in {"sig_a", "sig_b"}}

handle_layout_err(s, err, t) == span_bug(s, "layout_of", t.subject)

(* The handler with the size-overflow arm dropped: every error is a bug. *)
handle_fn_abi_err_collapsed(s, err, fn_abi_request) ==
    CASE fn_abi_request.kind = "OfFnPtr" ->
           span_bug(s, "fn_abi_of_fn_ptr", fn_abi_request.subject)
      [] fn_abi_request.kind = "OfInstance" ->
           span_bug(s, "fn_abi_of_instance", fn_abi_request.subject)

handle_fn_abi_err(s, err, fn_abi_request) ==
    IF err.variant = "Layout" /\ err.layout = "SizeOverflow"
    THEN dcx_emit_fatal(s, "fn_abi_error", err.layout)
    ELSE CASE fn_abi_request.kind = "OfFnPtr" ->
                span_bug(s, "fn_abi_of_fn_ptr", fn_abi_request.subject)
           [] fn_abi_request.kind = "OfInstance" ->
                span_bug(s, "fn_abi_of_instance", fn_abi_request.subject)

-----------------------------------------------------------------------------
(* Initial states: one per entry point and input *)

Idle ==
    /\ dcx = EmptyDcx
    /\ idx = 0
    /\ def_ids = {}
    /\ reachable_functions = {}
    /\ calls = <<>>
    /\ result = "none"

NoCrate == hir_items = <<>> /\ ignore_asm = FALSE

NoReachable == items = <<>> /\ unstable_features = {}

NoScan == ty = I32 /\ stack = <<>>

NoAbi == abi = [err |-> NoError, request |-> [kind |-> "none", subject |-> ""]]

InitCrate ==
    /\ op = "check_crate_items" /\ pc = "loop"
    /\ hir_items \in SeqsUpTo(HirItems, MaxHir)
    /\ ignore_asm \in BOOLEAN
    /\ Idle /\ NoReachable /\ NoScan /\ NoAbi

InitReachable ==
    /\ op = "check_reachable_items" /\ pc = "start"
    /\ items \in SeqsUpTo(MonoItems, MaxItems)
    /\ unstable_features \in SUBSET Features
    /\ Idle /\ NoCrate /\ NoScan /\ NoAbi

InitScan ==
    /\ op = "is_interior_mut" /\ pc = "visit"
    /\ ty \in Types
    /\ stack = <<ty>>
    /\ Idle /\ NoCrate /\ NoReachable /\ NoAbi

InitAbi ==
    /\ op \in {"fn_abi", "fn_abi_of_fn_ptr", "layout_of"} /\ pc = "call"
    /\ abi \in IF op = "layout_of"
               THEN [err : LayoutErrors \cup {NoError}, request : LayoutRequests]
               ELSE [err : FnAbiErrors \cup {NoError},
                     request : {r \in FnAbiRequests :
                                  r.kind = IF op = "fn_abi" THEN "OfInstance" ELSE "OfFnPtr"}]
    /\ Idle /\ NoCrate /\ NoReachable /\ NoScan

Init == InitCrate \/ InitReachable \/ InitScan \/ InitAbi

-----------------------------------------------------------------------------
(* Actions *)

(* One iteration of check_crate_items' for loop. *)
CrateItem ==
    /\ op = "check_crate_items" /\ pc = "loop" /\ idx < Len(hir_items)
    /\ dcx' = CrateItemBody(dcx, idx + 1, hir_items[idx + 1], ignore_asm)
    /\ idx' = idx + 1
    /\ pc' = After(dcx', "loop")
    /\ UNCHANGED <<op, hir_items, ignore_asm, items, unstable_features, def_ids,
                   reachable_functions, calls, ty, stack, result, abi>>

(* tcx.dcx().abort_if_errors() after the loop of check_crate_items. *)
CrateCheckpoint ==
    /\ op = "check_crate_items" /\ pc = "loop" /\ idx = Len(hir_items)
    /\ pc' = abort_if_errors(dcx)
    /\ UNCHANGED <<op, dcx, hir_items, ignore_asm, items, unstable_features, idx,
                   def_ids, reachable_functions, calls, ty, stack, result, abi>>

(* check_reachable_items up to its for loop: the two sets are built. *)
ReachableSets ==
    /\ op = "check_reachable_items" /\ pc = "start"
    /\ def_ids' = {}
    /\ reachable_functions' = ReachableFunctions(items)
    /\ pc' = "loop"
    /\ UNCHANGED <<op, dcx, hir_items, ignore_asm, items, unstable_features, idx,
                   calls, ty, stack, result, abi>>

(* One iteration of check_reachable_items' for loop over the filtered items. *)
ReachableItem ==
    /\ op = "check_reachable_items" /\ pc = "loop" /\ idx < Len(FilterItems(items))
    /\ LET st == ReachableItemBody(
                   [def_ids |-> def_ids, calls |-> calls, dcx |-> dcx, panicked |-> FALSE],
                   FilterItems(items)[idx + 1], reachable_functions, unstable_features)
       IN  /\ def_ids' = st.def_ids
           /\ calls' = st.calls
           /\ dcx' = st.dcx
           /\ pc' = IF st.panicked THEN "panic" ELSE After(st.dcx, "loop")
    /\ idx' = idx + 1
    /\ UNCHANGED <<op, hir_items, ignore_asm, items, unstable_features,
                   reachable_functions, ty, stack, result, abi>>

(* tcx.dcx().abort_if_errors() after the loop of check_reachable_items. *)
ReachableCheckpoint ==
    /\ op = "check_reachable_items" /\ pc = "loop" /\ idx = Len(FilterItems(items))
    /\ pc' = abort_if_errors(dcx)
    /\ UNCHANGED <<op, dcx, hir_items, ignore_asm, items, unstable_features, idx,
                   def_ids, reachable_functions, calls, ty, stack, result, abi>>

(* One call of visit_ty: the type on top of the recursion is visited. *)
VisitTy ==
    /\ op = "is_interior_mut" /\ pc = "visit" /\ stack # <<>>
    /\ LET r == visit_ty(Head(stack))
       IN  IF r.brk
           THEN /\ stack' = <<>>
                /\ result' = "true"
                /\ pc' = "returned"
           ELSE /\ stack' = r.next \o Tail(stack)
                /\ UNCHANGED <<result, pc>>
    /\ UNCHANGED <<op, dcx, hir_items, ignore_asm, items, unstable_features, idx,
                   def_ids, reachable_functions, calls, ty, abi>>

(* The outermost visit_ty returned Continue: is_interior_mut returns false. *)
VisitDone ==
    /\ op = "is_interior_mut" /\ pc = "visit" /\ stack = <<>>
    /\ result' = "false"
    /\ pc' = "returned"
    /\ UNCHANGED <<op, dcx, hir_items, ignore_asm, items, unstable_features, idx,
                   def_ids, reachable_functions, calls, ty, stack, abi>>

(* fn_abi_of_instance (fn_abi) or fn_abi_of_fn_ptr through CompilerHelpers. *)
FnAbiOf ==
    /\ op \in {"fn_abi", "fn_abi_of_fn_ptr"} /\ pc = "call"
    /\ IF abi.err = NoError
       THEN /\ result' = "FnAbi"
            /\ pc' = "returned"
            /\ dcx' = dcx
       ELSE /\ dcx' = handle_fn_abi_err(dcx, abi.err, abi.request)
            /\ pc' = After(dcx', "returned")
            /\ result' = result
    /\ UNCHANGED <<op, hir_items, ignore_asm, items, unstable_features, idx,
                   def_ids, reachable_functions, calls, ty, stack, abi>>

(* layout_of through CompilerHelpers. *)
LayoutOf ==
    /\ op = "layout_of" /\ pc = "call"
    /\ IF abi.err = NoError
       THEN /\ result' = "TyAndLayout"
            /\ pc' = "returned"
            /\ dcx' = dcx
       ELSE /\ dcx' = handle_layout_err(dcx, abi.err, abi.request)
            /\ pc' = After(dcx', "returned")
            /\ result' = result
    /\ UNCHANGED <<op, hir_items, ignore_asm, items, unstable_features, idx,
                   def_ids, reachable_functions, calls, ty, stack, abi>>

Next ==
    \/ CrateItem
    \/ CrateCheckpoint
    \/ ReachableSets
    \/ ReachableItem
    \/ ReachableCheckpoint
    \/ VisitTy
    \/ VisitDone
    \/ FnAbiOf
    \/ LayoutOf

Spec == Init /\ [][Next]_vars

(* The run is sequential code: a step that can be taken is taken. *)
LiveSpec == Spec /\ WF_vars(Next)

-----------------------------------------------------------------------------
(* Vocabulary of the properties *)

Ended == pc \in {"returned", "aborted", "fatal", "bug", "panic"}

Range(s) == {s[i] : i \in DOMAIN s}

Count(seq, x) == Cardinality({i \in DOMAIN seq : seq[i] = x})

BagOf(seq) == [x \in Range(seq) |-> Count(seq, x)]

Errors(seq, code) == {i \in DOMAIN seq : seq[i].level = "error" /\ seq[i].code = code}

(* A field type of a definition with its parameter replaced. *)
RECURSIVE Subst(_, _)
Subst(tmpl, as) ==
    IF tmpl.k = "Param" THEN as[1]
    ELSE [tmpl EXCEPT !.args = [i \in DOMAIN tmpl.args |-> Subst(tmpl.args[i], as)]]

(* Value containment: a value of type t embeds a marker-wrapped value,     *)
(* decomposing through fields and tuple elements, never through a pointee. *)
RECURSIVE ValueContainsMarker(_)
ValueContainsMarker(t) ==
    CASE t.k = "Adt" /\ is_unsafe_cell(t.def) -> TRUE
      [] t.k = "Adt" /\ ~is_unsafe_cell(t.def) ->
           \E i \in DOMAIN AdtFields(t.def) :
              ValueContainsMarker(Subst(AdtFields(t.def)[i], t.args))
      [] t.k = "Tuple" -> \E i \in DOMAIN t.args : ValueContainsMarker(t.args[i])
      [] OTHER -> FALSE

(* The type expression names the self-referential struct Node. *)
RECURSIVE Mentions(_, _)
Mentions(t, d) ==
    (t.k = "Adt" /\ t.def = d) \/ \E i \in DOMAIN t.args : Mentions(t.args[i], d)

Scanned == op = "is_interior_mut" /\ pc = "returned"

-----------------------------------------------------------------------------
(* C1: every type that value-contains a marker-wrapped type at any depth   *)
(* makes is_interior_mut return true, also when the aggregate holding the  *)
(* marker has no type parameters.                                          *)
C1_ValueContainedMarkerFound ==
    (Scanned /\ ValueContainsMarker(ty)) => result = "true"

(* C2: every type in which no marker-wrapped type is reachable by value    *)
(* containment (each one sits behind a reference or raw pointer) makes     *)
(* is_interior_mut return false.                                           *)
C2_MarkerBehindPointerNotFound ==
    (Scanned /\ ~ValueContainsMarker(ty)) => result = "false"

(* C7: is_interior_mut terminates with a boolean on every type whose       *)
(* structure is cyclic only through a pointer (the struct Node, which      *)
(* holds a raw pointer to itself, and every type built around it).         *)
C7_ScanTerminates ==
    (op = "is_interior_mut" /\ Mentions(ty, "Node"))
        ~> (pc = "returned" /\ result \in {"true", "false"})

C7_SelfReferentialScanned ==
    Scanned /\ ty = Tuple(<<Adt("Wrapper", <<Adt("Node", <<>>)>>), Adt("Node", <<>>)>>)
            /\ result = "false"

-----------------------------------------------------------------------------
(* Vocabulary of the validator properties *)

Validated == op = "check_reachable_items" /\ Ended

Referenced(its) == {its[i].def : i \in {j \in DOMAIN its : IsFnOrStatic(its[j])}}

FnDefs(its) == {its[i].def : i \in {j \in DOMAIN its : IsFn(its[j])}}

(* Every entry of its twice, side by side. *)
RECURSIVE Doubled(_)
Doubled(its) ==
    IF its = <<>> THEN <<>> ELSE <<Head(its), Head(its)>> \o Doubled(Tail(its))

Permuted(its, f) == [i \in DOMAIN its |-> its[f[i]]]

WithoutAsm(its) == SelectSeq(its, LAMBDA i : i.kind # "GlobalAsm")

(* C3: each of the two per-definition checks is invoked exactly once per   *)
(* Definition referenced by a Function or Static entry, whatever the       *)
(* number of entries that reference it, and the diagnostics are the same   *)
(* when every entry is duplicated.                                         *)
C3_OncePerDefinition ==
    Validated =>
        /\ \A d \in Defs :
             /\ Count(calls, <<"check_unstable_features", d>>)
                  = IF d \in Referenced(items) THEN 1 ELSE 0
             /\ Count(calls, <<"check_proof_for_contract", d>>)
                  = IF d \in Referenced(items) THEN 1 ELSE 0
        /\ Len(calls) = 2 * Cardinality(Referenced(items))
        /\ check_reachable_items(Doubled(items), unstable_features).diags = dcx.diags
        /\ check_reachable_items(items \o items, unstable_features).diags = dcx.diags

C3_SeveralInstantiations ==
    /\ Validated
    /\ \E i, j \in DOMAIN items :
         /\ i # j /\ IsFn(items[i]) /\ IsFn(items[j])
         /\ items[i].def = "harness" /\ items[j].def = "harness"
         /\ items[i].inst # items[j].inst
    /\ Cardinality(Errors(dcx.diags, "proof_for_contract")) = 1

(* C4: for a proof-for-contract Definition in the sequence, targeting T,   *)
(* exactly one error of that check is recorded when T is the Definition of *)
(* no Function entry and none when it is the Definition of one; Static and *)
(* GlobalAssembly entries do not count.                                    *)
C4_ProofForContractReachability ==
    Validated =>
        \A t \in Defs :
            Cardinality({i \in Errors(dcx.diags, "proof_for_contract") :
                            dcx.diags[i].about = t})
              = IF /\ \E d \in Referenced(items) : ForContractAttribute(d) = <<t>>
                   /\ t \notin FnDefs(items)
                THEN 1 ELSE 0

C4_StaticDoesNotReach ==
    /\ Validated /\ pc = "aborted"
    /\ "harness" \in Referenced(items)
    /\ \E i \in DOMAIN items : items[i].kind = "Static" /\ items[i].def = "target"
    /\ \E i \in DOMAIN items : items[i].kind = "GlobalAsm"
    /\ Cardinality(Errors(dcx.diags, "proof_for_contract")) = 1

-----------------------------------------------------------------------------
Audited == op = "check_crate_items" /\ Ended

AsmItems == {n \in DOMAIN hir_items : hir_items[n].kind = "GlobalAsm"}

Has(level, code, about) == \E i \in DOMAIN dcx.diags : dcx.diags[i] = Diag(level, code, about)

(* C5: on a unit with a global-assembly item, check_crate_items with       *)
(* ignore_asm = false records an error for the item and aborts at the      *)
(* checkpoint; with ignore_asm = true it records a warning and no error    *)
(* for the item and, absent other errors, returns.                         *)
C5_GlobalAsmPolicy ==
    (Audited /\ AsmItems # {}) =>
        IF ~ignore_asm
        THEN /\ \A n \in AsmItems : Has("error", "global_asm", ToString(n))
             /\ pc = "aborted"
        ELSE /\ \A n \in AsmItems :
                  /\ Has("warning", "global_asm", ToString(n))
                  /\ ~Has("error", "global_asm", ToString(n))
             /\ (\A n \in DOMAIN hir_items : hir_items[n].consistent) => pc = "returned"

C5_AsmIgnoredWithWarning ==
    /\ Audited /\ ignore_asm /\ pc = "returned"
    /\ Cardinality(AsmItems) = 2
    /\ Len(dcx.diags) = 2

-----------------------------------------------------------------------------
(* The violations the batch holds: what each validator has to have         *)
(* recorded once every item was looked at.                                 *)
CrateViolations ==
    {Diag("error", "attributes", ToString(n)) :
        n \in {m \in DOMAIN hir_items : ~hir_items[m].consistent}}
      \cup {Diag("error", "global_asm", ToString(n)) :
              n \in {m \in AsmItems : ~ignore_asm}}

ReachableViolations ==
    {Diag("error", "unstable", f) :
        f \in {g \in Features \ unstable_features :
                 \E d \in Referenced(items) : g \in Range(UnstableAttributes(d))}}
      \cup {Diag("error", "proof_for_contract", t) :
              t \in {u \in Defs \ FnDefs(items) :
                       \E d \in Referenced(items) : ForContractAttribute(d) = <<u>>}}

(* C6: in both validators an error does not stop the traversal: the run    *)
(* leaves only through the abort checkpoint, after every item was visited, *)
(* with every violation of the batch in the sink, and it aborts exactly    *)
(* when the sink holds an error.                                           *)
C6_AggregateThenAbort ==
    /\ (op \in {"check_crate_items", "check_reachable_items"} /\ pc # "start")
          => pc \in {"loop", "aborted", "returned"}
    /\ Audited =>
          /\ idx = Len(hir_items)
          /\ CrateViolations \subseteq Range(dcx.diags)
          /\ (pc = "aborted") = has_errors(dcx)
    /\ Validated =>
          /\ idx = Len(FilterItems(items))
          /\ ReachableViolations \subseteq Range(dcx.diags)
          /\ (pc = "aborted") = has_errors(dcx)

C6_SeveralErrorsBeforeAbort ==
    /\ Audited /\ pc = "aborted"
    /\ Len(hir_items) = 3
    /\ Has("error", "attributes", "1")
    /\ Has("error", "global_asm", "2")
    /\ Has("error", "attributes", "3")

-----------------------------------------------------------------------------
AbiFailed == op \in {"fn_abi", "fn_abi_of_fn_ptr"} /\ pc # "call" /\ abi.err # NoError

SizeOverflow == [variant |-> "Layout", layout |-> "SizeOverflow"]

(* C8: a failure of the function-ABI computation never returns and never   *)
(* joins the error batch: a size overflow leaves by a fatal diagnostic,    *)
(* any other failure by a bug report naming the request kind and its       *)
(* signature or instance.                                                  *)
C8_AbiFailureHalts ==
    AbiFailed =>
        /\ Len(dcx.diags) = 1
        /\ ~has_errors(dcx)
        /\ IF abi.err = SizeOverflow
           THEN pc = "fatal" /\ dcx.diags[1].level = "fatal"
           ELSE /\ pc = "bug"
                /\ dcx.diags[1].level = "bug"
                /\ dcx.diags[1].code = (IF abi.request.kind = "OfInstance"
                                        THEN "fn_abi_of_instance" ELSE "fn_abi_of_fn_ptr")
                /\ dcx.diags[1].about = abi.request.subject

C8_SizeOverflowFatal ==
    AbiFailed /\ op = "fn_abi" /\ abi.err = SizeOverflow /\ pc = "fatal"

-----------------------------------------------------------------------------
(* C9: whatever the sequence, GlobalAssembly entries are skipped without a *)
(* diagnostic and the unreachable!() arm is never entered.                 *)
C9_GlobalAsmSkipped ==
    /\ op = "check_reachable_items" => pc # "panic"
    /\ Validated =>
          LET r == check_reachable_items(WithoutAsm(items), unstable_features)
          IN  r.diags = dcx.diags /\ r.calls = calls /\ r.exit = pc

C9_AsmAmongItems ==
    /\ Validated
    /\ Len(items) = 3
    /\ items[1].kind = "GlobalAsm" /\ items[2].kind = "Fn" /\ items[3].kind = "GlobalAsm"

(* C10: the outcome does not depend on the order of the sequence: every    *)
(* permutation checks the same Definitions, records the same diagnostics   *)
(* (as a multiset) and leaves the same way; a target whose Function entry  *)
(* comes after the proof harness is reachable.                             *)
C10_OrderIndependent ==
    Validated =>
        /\ \A f \in Permutations(DOMAIN items) :
              LET r == check_reachable_items(Permuted(items, f), unstable_features)
              IN  /\ Range(r.calls) = Range(calls)
                  /\ BagOf(r.diags) = BagOf(dcx.diags)
                  /\ r.exit = pc
        /\ (\E i, j \in DOMAIN items :
               /\ i < j
               /\ IsFnOrStatic(items[i]) /\ items[i].def = "harness"
               /\ IsFn(items[j]) /\ items[j].def = "target")
              => Errors(dcx.diags, "proof_for_contract") = {}

C10_TargetAfterHarness ==
    /\ Validated /\ pc = "returned"
    /\ Len(items) = 2
    /\ IsFn(items[1]) /\ items[1].def = "harness"
    /\ IsFn(items[2]) /\ items[2].def = "target"

=============================================================================
